---- MODULE Spec2Model ----
(***************************************************************************)
(* Model of the Bark push client (package bark): Options.Validate,         *)
(* Client.preparePayload, pKCS7Padding, aesEncrypt and Client.Push.        *)
(*                                                                         *)
(* Go strings are TLA+ strings; a []byte is a sequence of numbers 0..255.   *)
(* A nil pointer, a nil error and a nil slice are the empty sequence <<>>;  *)
(* a non-nil pointer or error is the one-element sequence holding its      *)
(* value or its message.                                                   *)
(***************************************************************************)
EXTENDS Integers, Sequences, FiniteSets, TLC

nil == <<>>

\* ---------------------------------------------------------------- bounds
\* longest DeviceKeys list given to Validate and preparePayload
MaxKeys == 3
\* longest DeviceKeys list given to Push
MaxPushKeys == 1
\* longest plaintext given to aesEncrypt and pKCS7Padding on their own
MaxDataLen == 33

\* ------------------------------------------------------------- constants
EncModeCBC == "CBC"
EncModeECB == "ECB"
EncModeGCM == "GCM"
AesBlockSize == 16
GcmTagSize == 16

\* ------------------------------------------------------- string helpers
StrOf(c, n) == LET RECURSIVE R(_)
                   R(k) == IF k = 0 THEN "" ELSE c \o R(k - 1)
               IN R(n)

\* the ASCII code of a character
CodesFrom(chars, first) ==
  [c \in {SubSeq(chars, i, i) : i \in 1..Len(chars)} |->
     first - 1 + (CHOOSE i \in 1..Len(chars) : SubSeq(chars, i, i) = c)]

Ord ==
  CodesFrom("0123456789", 48) @@ CodesFrom("ABCDEFGHIJKLMNOPQRSTUVWXYZ", 65)
    @@ CodesFrom("abcdefghijklmnopqrstuvwxyz", 97)
    @@ (" " :> 32) @@ ("\"" :> 34) @@ ("(" :> 40) @@ (")" :> 41) @@ ("," :> 44)
    @@ ("-" :> 45) @@ ("." :> 46) @@ ("/" :> 47) @@ (":" :> 58) @@ ("<" :> 60)
    @@ (">" :> 62) @@ ("[" :> 91) @@ ("\\" :> 92) @@ ("]" :> 93) @@ ("_" :> 95)
    @@ ("{" :> 123) @@ ("}" :> 125)

\* []byte(s)
Bytes(s) == [i \in 1..Len(s) |-> Ord[SubSeq(s, i, i)]]

UpperChar(c) ==
  CASE c = "a" -> "A" [] c = "b" -> "B" [] c = "c" -> "C" [] c = "d" -> "D"
    [] c = "e" -> "E" [] c = "f" -> "F" [] c = "g" -> "G" [] c = "h" -> "H"
    [] c = "i" -> "I" [] c = "j" -> "J" [] c = "k" -> "K" [] c = "l" -> "L"
    [] c = "m" -> "M" [] c = "n" -> "N" [] c = "o" -> "O" [] c = "p" -> "P"
    [] c = "q" -> "Q" [] c = "r" -> "R" [] c = "s" -> "S" [] c = "t" -> "T"
    [] c = "u" -> "U" [] c = "v" -> "V" [] c = "w" -> "W" [] c = "x" -> "X"
    [] c = "y" -> "Y" [] c = "z" -> "Z" [] OTHER -> c

\* strings.ToUpper
ToUpper(s) == LET RECURSIVE R(_)
                  R(t) == IF t = "" THEN ""
                          ELSE UpperChar(SubSeq(t, 1, 1)) \o R(SubSeq(t, 2, Len(t)))
              IN R(s)

Digit(d) == SubSeq("0123456789", d + 1, d + 1)

\* fmt's %d for a non-negative int
Itoa(n) == LET RECURSIVE R(_)
               R(k) == IF k < 10 THEN Digit(k) ELSE R(k \div 10) \o Digit(k % 10)
           IN R(n)

\* slices.Contains
Contains(s, v) == \E i \in 1..Len(s) : s[i] = v

\* ------------------------------------------------------------- Validate
ErrDeviceKey == <<"device_key is required">>
ErrContent == <<"notification content is required">>
ErrKeyLen == <<"encryption key length must be 16 (AES-128), 24 (AES-192), or 32 (AES-256) bytes">>
ErrCbcIv == <<"CBC mode requires IV">>
ErrGcmNonce == <<"GCM mode requires Nonce (Iv field)">>
ErrMode(m) == <<"unsupported encryption mode: " \o m \o " (supported: CBC, ECB, GCM)">>

ValidateEnc(enc) ==
  LET keyLen == Len(enc.Key)
      mode == ToUpper(enc.Mode)
  IN IF keyLen # 16 /\ keyLen # 24 /\ keyLen # 32 THEN ErrKeyLen
     ELSE CASE mode = EncModeCBC -> IF Len(enc.Iv) = 0 THEN ErrCbcIv ELSE nil
            [] mode = EncModeGCM -> IF Len(enc.Iv) = 0 THEN ErrGcmNonce ELSE nil
            [] mode = EncModeECB -> nil
            [] OTHER -> ErrMode(enc.Mode)

\* faulty variant: the content rule is checked before the device-key rule
ValidateContentFirst(o) ==
  IF o.Title = "" /\ o.Body = "" /\ o.Markdown = "" THEN ErrContent
  ELSE IF Len(o.DeviceKey) = 0 /\ Len(o.DeviceKeys) = 0 THEN ErrDeviceKey
  ELSE IF o.Enc # nil THEN ValidateEnc(o.Enc[1])
  ELSE nil

Validate(o) ==
  IF Len(o.DeviceKey) = 0 /\ Len(o.DeviceKeys) = 0 THEN ErrDeviceKey
  ELSE IF o.Title = "" /\ o.Body = "" /\ o.Markdown = "" THEN ErrContent
  ELSE IF o.Enc # nil THEN ValidateEnc(o.Enc[1])
  ELSE nil

\* ----------------------------------------------------------------- JSON
\* A JSON object is the sequence of its members, in the order json.Marshal
\* writes them.  A member value is kept under its Go kind: "string",
\* "strings" ([]string), "intptr" (*int) or "text" (a string of base64).
Member(name, kind, v) == [name |-> name, kind |-> kind, v |-> (kind :> v)]

\* The struct tags of Options, in declaration order: field, JSON name, kind.
\* Enc is tagged json:"-" and has no entry.
OptionsFields ==
  << <<"DeviceKey", "device_key", "string">>,
     <<"DeviceKeys", "device_keys", "strings">>,
     <<"Title", "title", "string">>,
     <<"Body", "body", "string">>,
     <<"Markdown", "markdown", "string">>,
     <<"Subtitle", "subtitle", "string">>,
     <<"Group", "group", "string">>,
     <<"URL", "url", "string">>,
     <<"Icon", "icon", "string">>,
     <<"Sound", "sound", "string">>,
     <<"Badge", "badge", "intptr">>,
     <<"Level", "level", "string">>,
     <<"Copy", "copy", "string">>,
     <<"AutoCopy", "autoCopy", "string">>,
     <<"IsArchive", "isArchive", "intptr">>,
     <<"Call", "call", "string">>,
     <<"Volume", "volume", "intptr">>,
     <<"Action", "action", "string">>,
     <<"ID", "id", "string">>,
     <<"Delete", "delete", "string">> >>

\* omitempty: "", a nil or empty slice, a nil pointer
IsEmptyValue(kind, v) == IF kind = "string" THEN v = "" ELSE Len(v) = 0

\* json.Marshal of an Options value
MarshalOptions(o) ==
  LET RECURSIVE R(_)
      R(i) == IF i > Len(OptionsFields) THEN <<>>
              ELSE LET f == OptionsFields[i]
                       v == o[f[1]]
                   IN IF IsEmptyValue(f[3], v) THEN R(i + 1)
                      ELSE <<Member(f[2], f[3], IF f[3] = "intptr" THEN v[1] ELSE v)>> \o R(i + 1)
  IN R(1)

EscapeChar(c) == IF c = "\"" THEN "\\\"" ELSE IF c = "\\" THEN "\\\\" ELSE c

Quote(s) == LET RECURSIVE R(_)
                R(t) == IF t = "" THEN ""
                        ELSE EscapeChar(SubSeq(t, 1, 1)) \o R(SubSeq(t, 2, Len(t)))
            IN "\"" \o R(s) \o "\""

ValueText(kind, v) ==
  CASE kind = "string" -> Quote(v)
    [] kind = "intptr" -> Itoa(v)
    [] kind = "strings" ->
         LET RECURSIVE R(_)
             R(i) == IF i > Len(v) THEN ""
                     ELSE (IF i > 1 THEN "," ELSE "") \o Quote(v[i]) \o R(i + 1)
         IN "[" \o R(1) \o "]"

\* the bytes json.Marshal writes for an object with these members
JsonText(doc) ==
  LET RECURSIVE R(_)
      R(i) == IF i > Len(doc) THEN ""
              ELSE (IF i > 1 THEN "," ELSE "") \o Quote(doc[i].name) \o ":"
                   \o ValueText(doc[i].kind, doc[i].v[doc[i].kind]) \o R(i + 1)
  IN "{" \o R(1) \o "}"

Names(doc) == {doc[i].name : i \in 1..Len(doc)}

\* ------------------------------------------------------------- padding
\* bytes.Repeat([]byte{b}, count)
Repeat(b, count) == [i \in 1..count |-> b]

\* byte(n)
ToByte(n) == n % 256

\* faulty variant: no padding when the input is already block-aligned
pKCS7PaddingNoFullBlock(ciphertext, blockSize) ==
  LET padding == (blockSize - (Len(ciphertext) % blockSize)) % blockSize
      padtext == Repeat(ToByte(padding), padding)
  IN ciphertext \o padtext

pKCS7Padding(ciphertext, blockSize) ==
  LET padding == blockSize - (Len(ciphertext) % blockSize)
      padtext == Repeat(ToByte(padding), padding)
  IN ciphertext \o padtext

\* ---------------------------------------------------------- AES (library)
\* The block cipher itself is the standard library's; its outputs are kept
\* as terms over the key and the input block, so that equal terms are equal
\* ciphertext blocks and every term stands for AesBlockSize bytes.
KeySizeError(k) == <<"crypto/aes: invalid key size " \o Itoa(k)>>

\* aes.NewCipher
NewCipher(key) ==
  IF Len(key) \in {16, 24, 32} THEN [block |-> <<key>>, err |-> nil]
  ELSE [block |-> nil, err |-> KeySizeError(Len(key))]

\* block.Encrypt(dst, src); in CBC mode src is the block xor-ed with the IV
\* (first block) or with the previous ciphertext block
BlockEncrypt(key, src, iv, prev) == [aes |-> key, in |-> src, iv |-> iv, prev |-> prev]

BlockAt(data, i, blockSize) == SubSeq(data, (i - 1) * blockSize + 1, i * blockSize)

\* the ECB loop of aesEncrypt: every block on its own
EcbBlocks(key, paddedData, blockSize) ==
  [i \in 1..(Len(paddedData) \div blockSize) |->
     BlockEncrypt(key, BlockAt(paddedData, i, blockSize), <<>>, <<>>)]

\* cipher.NewCBCEncrypter(block, iv).CryptBlocks
CbcBlocks(key, iv, paddedData, blockSize) ==
  LET n == Len(paddedData) \div blockSize
      RECURSIVE C(_)
      C(i) == IF i = 0 THEN <<>>
              ELSE LET done == C(i - 1)
                   IN Append(done, BlockEncrypt(key, BlockAt(paddedData, i, blockSize),
                                                IF i = 1 THEN iv ELSE <<>>,
                                                IF i = 1 THEN <<>> ELSE <<done[i - 1]>>))
  IN C(n)

\* aesGCM.Seal(nil, nonce, data, nil): ciphertext || tag
GcmSeal(key, nonce, data) == [gcm |-> key, nonce |-> nonce, in |-> data]

\* a Go string that holds base64 text: its length and what it encodes
EmptyString == [len |-> 0, of |-> <<>>]

\* base64.StdEncoding.EncodeToString over n bytes
Base64(encrypted, n) == [len |-> 4 * ((n + 2) \div 3), of |-> encrypted]

ErrCbcIvLen(blockSize) == <<"CBC IV length must be " \o Itoa(blockSize)>>
ErrGcmNonceLen == <<"GCM Nonce length must be 12 bytes">>
ErrUnsupported == <<"unsupported encryption mode">>

\* case "CBC", lines 255-264
EncryptCBC(key, data, opt, blockSize) ==
  LET iv == Bytes(opt.Iv)
      paddedData == pKCS7Padding(data, blockSize)
  IN IF Len(iv) # blockSize
     THEN [text |-> EmptyString, err |-> ErrCbcIvLen(blockSize)]
     ELSE [text |-> Base64(CbcBlocks(key, iv, paddedData, blockSize), Len(paddedData)),
           err |-> nil]

\* case "ECB", lines 266-271
EncryptECB(key, data, opt, blockSize) ==
  LET paddedData == pKCS7Padding(data, blockSize)
  IN [text |-> Base64(EcbBlocks(key, paddedData, blockSize), Len(paddedData)),
      err |-> nil]

\* faulty variant: the nonce is only required to be non-empty
EncryptGCMAnyNonce(key, data, opt, blockSize) ==
  LET nonce == Bytes(opt.Iv)
  IN IF Len(nonce) = 0
     THEN [text |-> EmptyString, err |-> <<"GCM Nonce length must be 12 bytes">>]
     ELSE [text |-> Base64(<<GcmSeal(key, nonce, data)>>, Len(data) + GcmTagSize),
           err |-> nil]

\* case "GCM", lines 273-286
EncryptGCM(key, data, opt, blockSize) ==
  LET nonce == Bytes(opt.Iv)
  IN IF Len(nonce) # 12
     THEN [text |-> EmptyString, err |-> ErrGcmNonceLen]
     ELSE [text |-> Base64(<<GcmSeal(key, nonce, data)>>, Len(data) + GcmTagSize),
           err |-> nil]

aesEncrypt(data, opt) ==
  LET key == Bytes(opt.Key)
      c == NewCipher(key)
      blockSize == AesBlockSize
      mode == ToUpper(opt.Mode)
  IN IF c.err # nil THEN [text |-> EmptyString, err |-> c.err]
     ELSE CASE mode = "CBC" -> EncryptCBC(key, data, opt, blockSize)
            [] mode = "ECB" -> EncryptECB(key, data, opt, blockSize)
            [] mode = "GCM" -> EncryptGCM(key, data, opt, blockSize)
            [] OTHER -> [text |-> EmptyString, err |-> ErrUnsupported]

\* ------------------------------------------------------- preparePayload
ErrRouting == <<"missing device key for routing">>

\* faulty variant: DeviceKey is left in the copy
encOptsKeepingDeviceKey(o) == [o EXCEPT !.DeviceKeys = nil, !.Enc = nil]

\* encOpts: the copy of o with DeviceKey, DeviceKeys and Enc cleared
encOpts(o) == [o EXCEPT !.DeviceKey = "", !.DeviceKeys = nil, !.Enc = nil]

\* make([]string, 0, n): length 0
MakeStrings(n) == <<>>

\* copy(dst, src): copies min(len(dst), len(src)) elements, returns dst
Copy(dst, src) == [i \in 1..Len(dst) |-> IF i <= Len(src) THEN src[i] ELSE dst[i]]

finalRoutingKeys(deviceKeyToUse, deviceKeysToUse) ==
  LET made == MakeStrings(Len(deviceKeysToUse) + 1)
      copied == Copy(made, deviceKeysToUse)
  IN IF deviceKeyToUse # "" /\ ~Contains(copied, deviceKeyToUse)
     THEN Append(copied, deviceKeyToUse)
     ELSE copied

\* json.Marshal of the map encryptedPayload: keys in sorted order
MarshalMap(m) ==
  LET order == << <<"ciphertext", "text">>, <<"device_key", "string">>,
                  <<"device_keys", "strings">> >>
      RECURSIVE R(_)
      R(i) == IF i > Len(order) THEN <<>>
              ELSE IF order[i][1] \in DOMAIN m
                   THEN <<Member(order[i][1], order[i][2], m[order[i][1]])>> \o R(i + 1)
                   ELSE R(i + 1)
  IN R(1)

\* faulty variant: device_key is always attached, device_keys added to it
EnvelopeBothFields(cipherText, deviceKeyToUse, deviceKeysToUse) ==
  LET encryptedPayload == ("ciphertext" :> cipherText) @@ ("device_key" :> deviceKeyToUse)
  IN IF Len(deviceKeysToUse) > 0
     THEN [m |-> encryptedPayload @@ ("device_keys" :> deviceKeysToUse), err |-> nil]
     ELSE [m |-> encryptedPayload, err |-> nil]

\* the routing part of the envelope (step 5); err set when nothing resolves
Envelope(cipherText, deviceKeyToUse, deviceKeysToUse) ==
  LET encryptedPayload == "ciphertext" :> cipherText
  IN IF Len(deviceKeysToUse) > 0
     THEN LET keys == finalRoutingKeys(deviceKeyToUse, deviceKeysToUse)
          IN IF Len(keys) > 1
             THEN [m |-> encryptedPayload @@ ("device_keys" :> keys), err |-> nil]
             ELSE IF Len(keys) = 1
             THEN [m |-> encryptedPayload @@ ("device_key" :> keys[1]), err |-> nil]
             ELSE [m |-> encryptedPayload, err |-> ErrRouting]
     ELSE [m |-> encryptedPayload @@ ("device_key" :> deviceKeyToUse), err |-> nil]

\* preparePayload returns (payload, err).  payload is nil or <<doc>>, doc the
\* JSON object written.  plain records the argument of the aesEncrypt call
\* (nil when aesEncrypt is not called).
preparePayload(o) ==
  IF o.Enc = nil
  THEN [payload |-> <<MarshalOptions(o)>>, err |-> nil, plain |-> nil]
  ELSE LET deviceKeyToUse == o.DeviceKey
           deviceKeysToUse == o.DeviceKeys
           plainBytes == Bytes(JsonText(MarshalOptions(encOpts(o))))
           ct == aesEncrypt(plainBytes, o.Enc[1])
       IN IF ct.err # nil
          THEN [payload |-> nil, err |-> ct.err, plain |-> <<plainBytes>>]
          ELSE LET env == Envelope(ct.text, deviceKeyToUse, deviceKeysToUse)
               IN IF env.err # nil
                  THEN [payload |-> nil, err |-> env.err, plain |-> <<plainBytes>>]
                  ELSE [payload |-> <<MarshalMap(env.m)>>, err |-> nil,
                        plain |-> <<plainBytes>>]

\* ------------------------------------------------------------ HTTP (library)
\* A response body and what json.Unmarshal makes of it for the struct
\* {Code int `json:"code"`; Message string `json:"message"`}: nil when
\* Unmarshal reports an error.
ResponseBodies ==
  { [raw |-> "{\"code\":200,\"message\":\"success\"}", json |-> <<[Code |-> 200, Message |-> "success"]>>],
    [raw |-> "{\"code\":400,\"message\":\"bad\"}", json |-> <<[Code |-> 400, Message |-> "bad"]>>],
    [raw |-> "{\"code\":200}", json |-> <<[Code |-> 200, Message |-> ""]>>],
    [raw |-> "{}", json |-> <<[Code |-> 0, Message |-> ""]>>],
    [raw |-> "{\"code\":\"200\"}", json |-> nil],
    [raw |-> "<html>Bad Gateway</html>", json |-> nil],
    [raw |-> "", json |-> nil] }

Statuses == {200, 502}

Unmarshal(body) == body.json

ErrStatus(status, raw) == <<"status: " \o Itoa(status) \o ", body: " \o raw>>
ErrBark(code, message) == <<"bark error (" \o Itoa(code) \o "): " \o message>>
ErrNewRequest == <<"parse url">>
ErrDo == <<"Post: dial tcp: connection refused">>
ErrRead == <<"unexpected EOF">>

\* faulty variant: an unparsable body counts as success under HTTP 200
InterpretTrustingStatus(status, body) ==
  LET res == Unmarshal(body)
  IN IF res = nil THEN (IF status = 200 THEN nil ELSE ErrStatus(status, body.raw))
     ELSE IF res[1].Code # 200 THEN ErrBark(res[1].Code, res[1].Message)
     ELSE nil

\* lines 113-131 of Push: the outcome for a response body that was read
Interpret(status, body) ==
  LET res == Unmarshal(body)
  IN IF res = nil THEN ErrStatus(status, body.raw)
     ELSE IF res[1].Code # 200 THEN ErrBark(res[1].Code, res[1].Message)
     ELSE nil

\* ----------------------------------------------------------------- inputs
KeyNames == {"a", "b"}

Lists(n) == UNION {[1..k -> KeyNames] : k \in 0..n}

Modes == {"CBC", "cbc", "ECB", "Gcm", "XYZ"}

EncOpt(mode, keyLen, ivLen) == [Mode |-> mode, Key |-> StrOf("k", keyLen), Iv |-> StrOf("1", ivLen)]

EncOpts ==
  {EncOpt(m, k, i) : m \in Modes, k \in {15, 16}, i \in {0, 12, 16}}
    \cup {EncOpt("ECB", 24, 0), EncOpt("CBC", 32, 16), EncOpt("Gcm", 24, 12),
          EncOpt("GCM", 32, 16), EncOpt("ecb", 0, 5)}

EncPtrs == {nil} \cup {<<e>> : e \in EncOpts}

Options(dk, dks, title, body, md, badge, enc) ==
  [DeviceKey |-> dk, DeviceKeys |-> dks, Title |-> title, Body |-> body,
   Markdown |-> md, Subtitle |-> "", Group |-> "", URL |-> "", Icon |-> "",
   Sound |-> "", Badge |-> badge, Level |-> "", Copy |-> "", AutoCopy |-> "",
   IsArchive |-> nil, Call |-> "", Volume |-> nil, Action |-> "", ID |-> "",
   Delete |-> "", Enc |-> enc]

OptionsSet ==
  {Options(dk, dks, t, b, m, bg, e) :
     dk \in {"", "a", "d"}, dks \in Lists(MaxKeys) \cup {<<"a", "b", "c">>}, t \in {"", "T"}, b \in {"", "B"},
     m \in {"", "M"}, bg \in {nil, <<0>>}, e \in EncPtrs}

PushOptionsSet ==
  {Options(dk, dks, t, "", "", nil, e) :
     dk \in {"", "a"}, dks \in Lists(MaxPushKeys), t \in {"", "T"}, e \in EncPtrs}

DataSet == {Repeat(120, n) : n \in 0..MaxDataLen}

BlockSizes == {AesBlockSize}

\* ---------------------------------------------------------------- state
VARIABLES
  pc,       \* "idle", "returned" (a function called on its own has returned), or the
            \* position of Push: "validated", "prepared", "responded", "done"
  fn,       \* the function called
  arg,      \* its argument
  ret,      \* its result, a record; NoRet until it returns
  payload,  \* Push: the payload preparePayload returned, nil before
  plain,    \* Push: the argument of aesEncrypt, nil when not called
  sent,     \* Push: the body of the HTTP request sent, nil when none was
  resp,     \* Push: the response received, nil before
  trace     \* Push: the steps taken so far

vars == <<pc, fn, arg, ret, payload, plain, sent, resp, trace>>

NoArg == [none |-> TRUE]
NoRet == [none |-> TRUE]

Init ==
  /\ pc = "idle" /\ fn = "" /\ arg = NoArg /\ ret = NoRet /\ payload = nil
  /\ plain = nil /\ sent = nil /\ resp = nil /\ trace = <<>>

NoPush == /\ payload' = nil /\ plain' = nil /\ sent' = nil /\ resp' = nil /\ trace' = <<>>

CallValidate ==
  /\ pc = "idle"
  /\ \E o \in OptionsSet :
       /\ pc' = "returned" /\ fn' = "Validate" /\ arg' = o
       /\ ret' = [err |-> Validate(o)]
  /\ NoPush

CallPreparePayload ==
  /\ pc = "idle"
  /\ \E o \in OptionsSet :
       /\ pc' = "returned" /\ fn' = "preparePayload" /\ arg' = o
       /\ ret' = preparePayload(o)
  /\ NoPush

CallAesEncrypt ==
  /\ pc = "idle"
  /\ \E data \in DataSet, opt \in EncOpts :
       /\ pc' = "returned" /\ fn' = "aesEncrypt" /\ arg' = [data |-> data, opt |-> opt]
       /\ ret' = aesEncrypt(data, opt)
  /\ NoPush

CallPKCS7Padding ==
  /\ pc = "idle"
  /\ \E data \in DataSet, blockSize \in BlockSizes :
       /\ pc' = "returned" /\ fn' = "pKCS7Padding"
       /\ arg' = [ciphertext |-> data, blockSize |-> blockSize]
       /\ ret' = [out |-> pKCS7Padding(data, blockSize)]
  /\ NoPush

\* faulty variant: the result of Validate is ignored
PushValidateIgnoringError ==
  /\ pc = "idle"
  /\ \E o \in PushOptionsSet :
       /\ fn' = "Push" /\ arg' = o
  /\ pc' = "validated" /\ ret' = NoRet
  /\ trace' = <<"Validate">>
  /\ UNCHANGED <<payload, plain, sent, resp>>

\* Push, lines 92-94
PushValidate ==
  /\ pc = "idle"
  /\ \E o \in PushOptionsSet :
       /\ fn' = "Push" /\ arg' = o
       /\ LET err == Validate(o)
          IN IF err # nil THEN pc' = "done" /\ ret' = [err |-> err]
             ELSE pc' = "validated" /\ ret' = NoRet
  /\ trace' = <<"Validate">>
  /\ UNCHANGED <<payload, plain, sent, resp>>

\* Push, lines 96-99
PushPreparePayload ==
  /\ pc = "validated"
  /\ trace' = Append(trace, "preparePayload")
  /\ LET r == preparePayload(arg)
     IN /\ plain' = r.plain
        /\ payload' = r.payload
        /\ IF r.err # nil THEN pc' = "done" /\ ret' = [err |-> r.err]
           ELSE pc' = "prepared" /\ ret' = NoRet
  /\ UNCHANGED <<fn, arg, sent, resp>>

\* Push, lines 101-110: http.NewRequest, then HTTPClient.Do
PushSend ==
  /\ pc = "prepared"
  /\ \/ /\ pc' = "done" /\ ret' = [err |-> ErrNewRequest]
        /\ UNCHANGED <<sent, resp, trace>>
     \/ /\ pc' = "done" /\ ret' = [err |-> ErrDo]
        /\ sent' = payload /\ trace' = Append(trace, "send")
        /\ UNCHANGED resp
     \/ \E status \in Statuses, body \in ResponseBodies :
          /\ pc' = "responded" /\ ret' = NoRet
          /\ sent' = payload /\ trace' = Append(trace, "send")
          /\ resp' = <<[StatusCode |-> status, Body |-> body]>>
  /\ UNCHANGED <<fn, arg, payload, plain>>

\* Push, lines 118-131: io.ReadAll, json.Unmarshal, the code
PushResponse ==
  /\ pc = "responded"
  /\ pc' = "done"
  /\ \/ /\ ret' = [err |-> ErrRead]
        /\ UNCHANGED trace
     \/ /\ ret' = [err |-> Interpret(resp[1].StatusCode, resp[1].Body)]
        /\ trace' = Append(trace, "read")
  /\ UNCHANGED <<fn, arg, payload, plain, sent, resp>>

Next ==
  \/ CallValidate
  \/ CallPreparePayload
  \/ CallAesEncrypt
  \/ CallPKCS7Padding
  \/ PushValidate
  \/ PushPreparePayload
  \/ PushSend
  \/ PushResponse

Spec == Init /\ [][Next]_vars

\* ------------------------------------------------------------ properties
Range(q) == {q[i] : i \in 1..Len(q)}

Has(doc, name) == name \in Names(doc)

Value(doc, name) == LET m == doc[CHOOSE i \in 1..Len(doc) : doc[i].name = name]
                    IN m.v[m.kind]

\* the byte sequence sub occurs in the byte sequence b
Occurs(sub, b) == \E i \in 1..(Len(b) - Len(sub) + 1) : SubSeq(b, i, i + Len(sub) - 1) = sub

CbcSpellings == {"CBC", "CBc", "CbC", "Cbc", "cBC", "cBc", "cbC", "cbc"}
EcbSpellings == {"ECB", "ECb", "EcB", "Ecb", "eCB", "eCb", "ecB", "ecb"}
GcmSpellings == {"GCM", "GCm", "GcM", "Gcm", "gCM", "gCm", "gcM", "gcm"}

Prepared == fn = "preparePayload" /\ pc = "returned"

Encrypted(o) == o.Enc # nil

\* the list in its order, the single key appended unless already in it
Merged(o) == IF Contains(o.DeviceKeys, o.DeviceKey) THEN o.DeviceKeys
             ELSE Append(o.DeviceKeys, o.DeviceKey)

\* C1: an encrypted request with a device_key and a non-empty device_keys
\* list gets, in the envelope preparePayload returns, the merged routing
\* keys: as device_keys when two or more result, as device_key when one.
C1_MergedRouting ==
  (Prepared /\ Encrypted(arg) /\ arg.DeviceKey # "" /\ Len(arg.DeviceKeys) > 0
     /\ ret.err = nil)
  => LET doc == ret.payload[1]
         keys == Merged(arg)
     IN IF Len(keys) >= 2
        THEN Has(doc, "device_keys") /\ Value(doc, "device_keys") = keys
             /\ ~Has(doc, "device_key")
        ELSE Has(doc, "device_key") /\ Value(doc, "device_key") = keys[1]
             /\ ~Has(doc, "device_keys")

VariantKeys == {"", "d"}
VariantLists == {<<>>, <<"b", "c">>}
VariantEncs == {EncOpt("ECB", 16, 0), EncOpt("Gcm", 15, 12)}

\* C2: the plaintext preparePayload hands to aesEncrypt has no device_key
\* or device_keys member, and is the same for every request that differs
\* only in DeviceKey, DeviceKeys or Enc.
C2_PlainHasNoRouting ==
  (Prepared /\ Encrypted(arg))
  => /\ ret.plain # nil
     /\ ~Occurs(Bytes("\"device_key"), ret.plain[1])
     /\ \A dk \in VariantKeys, dks \in VariantLists, e \in VariantEncs :
          preparePayload([arg EXCEPT !.DeviceKey = dk, !.DeviceKeys = dks,
                                     !.Enc = <<e>>]).plain = ret.plain

C2_Witness ==
  /\ Prepared /\ Encrypted(arg) /\ arg.DeviceKey = "a" /\ arg.DeviceKeys = <<"a", "b", "c">>
  /\ arg.Title = "T" /\ ret.plain # nil /\ ret.err = nil

\* C3: an encrypted request with DeviceKey and DeviceKeys both empty makes
\* preparePayload fail (with the missing-routing-key error once encryption
\* has succeeded) and return no payload; an envelope preparePayload returns
\* always has a non-empty routing field.
C3_NoUnroutableEnvelope ==
  (Prepared /\ Encrypted(arg))
  => /\ (arg.DeviceKey = "" /\ Len(arg.DeviceKeys) = 0)
          => /\ ret.payload = nil /\ ret.err # nil
             /\ aesEncrypt(ret.plain[1], arg.Enc[1]).err = nil => ret.err = ErrRouting
     /\ ret.payload # nil
          => LET doc == ret.payload[1]
             IN \/ Has(doc, "device_key") /\ Value(doc, "device_key") # ""
                \/ Has(doc, "device_keys") /\ Len(Value(doc, "device_keys")) > 0

Rule1(o) == o.DeviceKey = "" /\ Len(o.DeviceKeys) = 0
Rule2(o) == o.Title = "" /\ o.Body = "" /\ o.Markdown = ""
Rule3a(o) == Encrypted(o) /\ Len(o.Enc[1].Key) \notin {16, 24, 32}
Rule3b(o) == Encrypted(o) /\ o.Enc[1].Mode \notin CbcSpellings \cup EcbSpellings \cup GcmSpellings
Rule3c(o) == Encrypted(o) /\ o.Enc[1].Mode \in CbcSpellings /\ o.Enc[1].Iv = ""
Rule3d(o) == Encrypted(o) /\ o.Enc[1].Mode \in GcmSpellings /\ o.Enc[1].Iv = ""

\* C4: Validate returns the error of the first violated rule, in the order
\* device key, content, key length, mode, CBC IV, GCM nonce, and nil only
\* when no rule is violated.
C4_FirstViolatedRule ==
  (fn = "Validate" /\ pc = "returned")
  => ret.err = IF Rule1(arg) THEN ErrDeviceKey
               ELSE IF Rule2(arg) THEN ErrContent
               ELSE IF Rule3a(arg) THEN ErrKeyLen
               ELSE IF Rule3b(arg) THEN ErrMode(arg.Enc[1].Mode)
               ELSE IF Rule3c(arg) THEN ErrCbcIv
               ELSE IF Rule3d(arg) THEN ErrGcmNonce
               ELSE nil

C4_Witness ==
  /\ fn = "Validate" /\ pc = "returned"
  /\ ~Rule1(arg) /\ Rule2(arg) /\ Rule3a(arg) /\ Rule3b(arg)
  /\ ret.err = ErrContent

PushSteps == <<"Validate", "preparePayload", "send", "read">>

\* C5: Push validates, then prepares the payload, then sends: encryption is
\* attempted only after Validate succeeded, a request is sent only after
\* Validate and preparePayload succeeded, and when either fails Push returns
\* that error with nothing sent and no payload.
C5_PushOrder ==
  fn = "Push"
  => /\ trace = SubSeq(PushSteps, 1, Len(trace))
     /\ plain # nil => Validate(arg) = nil
     /\ payload # nil => Validate(arg) = nil
     /\ sent # nil => /\ Validate(arg) = nil
                      /\ preparePayload(arg).err = nil
                      /\ sent = preparePayload(arg).payload
     /\ (pc = "done" /\ Validate(arg) # nil)
          => ret.err = Validate(arg) /\ sent = nil /\ payload = nil /\ plain = nil /\ resp = nil
     /\ (pc = "done" /\ Validate(arg) = nil /\ preparePayload(arg).err # nil)
          => ret.err = preparePayload(arg).err /\ sent = nil /\ payload = nil /\ resp = nil

C5_Witness ==
  /\ fn = "Push" /\ pc = "done" /\ Validate(arg) = nil
  /\ trace = <<"Validate", "preparePayload">> /\ ret.err = ErrGcmNonceLen /\ sent = nil

Malformed(opt) ==
  \/ Len(opt.Key) \notin {16, 24, 32}
  \/ opt.Mode \in CbcSpellings /\ Len(opt.Iv) # 16
  \/ opt.Mode \in GcmSpellings /\ Len(opt.Iv) # 12
  \/ opt.Mode \notin CbcSpellings \cup EcbSpellings \cup GcmSpellings

\* C6: aesEncrypt returns an error and the empty string when the key length
\* is not 16/24/32, the CBC IV is not 16 bytes, the GCM nonce is not 12
\* bytes or the mode is unknown; otherwise it returns a ciphertext and no
\* error; in ECB mode the result does not depend on Iv.
C6_FailsClosed ==
  (fn = "aesEncrypt" /\ pc = "returned")
  => /\ Malformed(arg.opt) => ret.err # nil /\ ret.text = EmptyString
     /\ ~Malformed(arg.opt) => ret.err = nil /\ ret.text.len > 0
     /\ arg.opt.Mode \in EcbSpellings
          => \A iv \in {"", "1", StrOf("2", 16)} :
               aesEncrypt(arg.data, [arg.opt EXCEPT !.Iv = iv]) = ret

C6_Witness ==
  /\ fn = "aesEncrypt" /\ pc = "returned"
  /\ arg.opt.Mode = "Gcm" /\ Len(arg.opt.Key) = 16 /\ Len(arg.opt.Iv) = 16
  /\ ret.err = ErrGcmNonceLen /\ ret.text.len = 0

\* C7: pKCS7Padding appends N = B - (L mod B) bytes of value N to the
\* unchanged input; N is in 1..B and the result is a multiple of B longer
\* than the input.
C7_Padding ==
  (fn = "pKCS7Padding" /\ pc = "returned")
  => LET L == Len(arg.ciphertext)
         B == arg.blockSize
         N == B - (L % B)
         out == ret.out
     IN /\ N \in 1..B
        /\ Len(out) = L + N
        /\ SubSeq(out, 1, L) = arg.ciphertext
        /\ \A i \in (L + 1)..Len(out) : out[i] = N
        /\ Len(out) % B = 0 /\ Len(out) > L

C7_Witness ==
  /\ fn = "pKCS7Padding" /\ pc = "returned"
  /\ Len(arg.ciphertext) = 2 * AesBlockSize /\ arg.blockSize = AesBlockSize
  /\ Len(ret.out) = 3 * AesBlockSize

\* C8: once a response body has been read, Push returns nil exactly when the
\* body parses with code 200; a parsed body with another code gives the
\* error with that code and message; an unparsable body gives the error
\* with the HTTP status and the raw body.
C8_ResponseCode ==
  (fn = "Push" /\ pc = "done" /\ Len(trace) = 4)
  => LET body == resp[1].Body
         parsed == body.json # nil
     IN /\ ret.err = nil <=> (parsed /\ body.json[1].Code = 200)
        /\ (parsed /\ body.json[1].Code # 200)
             => ret.err = ErrBark(body.json[1].Code, body.json[1].Message)
        /\ ~parsed => ret.err = ErrStatus(resp[1].StatusCode, body.raw)

C8_Witness ==
  /\ fn = "Push" /\ pc = "done" /\ Len(trace) = 4
  /\ resp[1].StatusCode = 200 /\ resp[1].Body.json = nil /\ resp[1].Body.raw # ""
  /\ ret.err = ErrStatus(200, resp[1].Body.raw)

\* C9: the envelope of an encrypted request has exactly two members,
\* ciphertext and one of device_key / device_keys, its routing values come
\* from the request, and a request with only DeviceKey K gets device_key K.
C9_EnvelopeShape ==
  (Prepared /\ Encrypted(arg) /\ ret.err = nil)
  => LET doc == ret.payload[1]
         ids == {arg.DeviceKey} \cup Range(arg.DeviceKeys)
     IN /\ Len(doc) = 2
        /\ Names(doc) \in {{"ciphertext", "device_key"}, {"ciphertext", "device_keys"}}
        /\ Value(doc, "ciphertext") = aesEncrypt(ret.plain[1], arg.Enc[1]).text
        /\ Has(doc, "device_key") => Value(doc, "device_key") \in ids
        /\ Has(doc, "device_keys") => Range(Value(doc, "device_keys")) \subseteq ids
        /\ Len(arg.DeviceKeys) = 0
             => Has(doc, "device_key") /\ Value(doc, "device_key") = arg.DeviceKey

C9_Witness ==
  /\ Prepared /\ Encrypted(arg) /\ ret.err = nil
  /\ arg.DeviceKey = "a" /\ arg.DeviceKeys = <<>>
  /\ Names(ret.payload[1]) = {"ciphertext", "device_key"}
  /\ Value(ret.payload[1], "device_key") = "a"

ExactIv(o) ==
  Encrypted(o) => /\ o.Enc[1].Mode \in CbcSpellings => Len(o.Enc[1].Iv) = 16
                  /\ o.Enc[1].Mode \in GcmSpellings => Len(o.Enc[1].Iv) = 12

\* C10: a request that Validate accepts and whose Iv has the exact length
\* its mode needs gets a payload and no error from preparePayload.
C10_ValidatedIsPrepared ==
  (Prepared /\ Validate(arg) = nil /\ ExactIv(arg))
  => ret.err = nil /\ ret.payload # nil
====
